---- MODULE Spec2Model ----
(***************************************************************************)
(* Model of the data / persistence layer of gym_main.py: the Member        *)
(* entity, the GymController roster store and its JSON backing file.       *)
(*                                                                         *)
(* Representation.                                                         *)
(*  - A Python dict is a sequence of <<key, value>> pairs with distinct    *)
(*    keys, in insertion order (Python dicts keep insertion order).        *)
(*  - weight (kilograms), height (metres) and bmi are decimal numbers      *)
(*    [digits, exp], digits * 10^exp: the float 1.6 is [16, -1].           *)
(*  - The wall clock counts seconds and may be set back; `now` is the      *)
(*    reading of the last call.  strftime("%Y-%m-%d") is the               *)
(*    day number, strftime("%Y-%m-%d %H:%M:%S") the pair                   *)
(*    <<day, second of day>>; string order of the program's timestamps is  *)
(*    the lexicographic order of the pairs.                                *)
(*  - The backing file is a record [kind, entries, mode]: kind says what   *)
(*    the text is, entries is the parsed top-level JSON object, and mode   *)
(*    is "rw" or, for a file the process may write but not read, "w".      *)
(***************************************************************************)
EXTENDS Integers, Sequences, FiniteSets, TLC

VARIABLES
    members,   \* GymController.members: dict id -> Member
    file,      \* DB_FILE on disk: its text and who may read it
    now,       \* the wall clock as the last call read it, in seconds
    phase,     \* "running" | "crashed" (an exception reached the top level)
    call,      \* the controller call made last: [op, id, args]
    ret,       \* what that call gave its caller: [kind, tag]
    out,       \* what that call printed on stdout (sequence of messages)
    fails,     \* number of save attempts that hit an IOError so far
    held       \* the Member the caller keeps from an earlier get_member

vars == <<members, file, now, phase, call, ret, out, fails, held>>

----------------------------------------------------------------------------
(* Bounds of the model *)

\* the latest second the clock shows
MaxClock == 2
\* check-ins held by the Members of the process at any one time
MaxLog == 2
\* save attempts the file system refuses
MaxFails == 1

\* length of a day of the model's calendar, in seconds
SecondsPerDay == 2

Ids == {"M1", "M2"}

(* The argument tuples create_member is called with. *)
Profiles ==
    { [name |-> "Ann", age |-> 30, gender |-> "F", phone |-> "555",
       weight |-> [digits |-> 6, exp |-> 1],
       height |-> [digits |-> 16, exp |-> -1], tier |-> "Basic"],
      [name |-> "Cy", age |-> 25, gender |-> "O", phone |-> "557",
       weight |-> [digits |-> 7, exp |-> 1],
       height |-> [digits |-> 0, exp |-> 0], tier |-> "Gold"] }

NoArgs == [name |-> "", age |-> 0, gender |-> "", phone |-> "",
           weight |-> [digits |-> 0, exp |-> 0],
           height |-> [digits |-> 0, exp |-> 0], tier |-> ""]

----------------------------------------------------------------------------
(* Python dict as an insertion-ordered sequence of <<key, value>> pairs *)

Keys(d) == { d[n][1] : n \in 1..Len(d) }

Has(d, k) == k \in Keys(d)

\* d[k] for a key k of d
Lookup(d, k) == d[CHOOSE n \in 1..Len(d) : d[n][1] = k][2]

\* d[k] = v : an existing key keeps its position, a new key goes last
Put(d, k, v) ==
    IF Has(d, k)
    THEN [n \in 1..Len(d) |-> IF d[n][1] = k THEN <<k, v>> ELSE d[n]]
    ELSE Append(d, <<k, v>>)

\* del d[k]
Del(d, k) == SelectSeq(d, LAMBDA p : p[1] # k)

----------------------------------------------------------------------------
(* datetime.now().strftime(...) *)

strftime_date(t) == t \div SecondsPerDay

strftime_datetime(t) == <<t \div SecondsPerDay, t % SecondsPerDay>>

\* order of two "%Y-%m-%d %H:%M:%S" strings
TsLeq(a, b) == a[1] < b[1] \/ (a[1] = b[1] /\ a[2] <= b[2])

----------------------------------------------------------------------------
(* class Member *)

Abs(x) == IF x < 0 THEN -x ELSE x

Max(a, b) == IF a >= b THEN a ELSE b

----------------------------------------------------------------------------
(* Python float arithmetic (IEEE 754 binary64, round to nearest, ties to
   even) on values in the normal range.  A natural number of any size is
   the sequence of its digits in base 2^13, least significant first and
   without leading zeros; a float is [m, e] with value m * 2^e, where m is
   0 (no digits) or has exactly 53 bits.  Division, squaring and rounding
   work on magnitudes, the sign of their result being that of the
   dividend; the terms of a sum carry their sign in a field neg. *)

Base == 8192

BaseBits == 13

Digit(a, n) == IF n >= 1 /\ n <= Len(a) THEN a[n] ELSE 0

Trim(a) ==
    LET used == { n \in 1..Len(a) : a[n] # 0 }
    IN  IF used = {} THEN <<>>
        ELSE SubSeq(a, 1, CHOOSE n \in used : \A k \in used : k <= n)

\* the number whose digits, not yet reduced to 0..Base-1, are ds
RECURSIVE Carry(_, _)
Carry(ds, c) ==
    IF ds = <<>>
    THEN IF c = 0 THEN <<>> ELSE <<c % Base>> \o Carry(<<>>, c \div Base)
    ELSE LET d == Head(ds) + c
         IN  <<d % Base>> \o Carry(Tail(ds), d \div Base)

Big(n) == Carry(<<n>>, 0)

RECURSIVE IntOf(_)
IntOf(a) == IF a = <<>> THEN 0 ELSE Head(a) + Base * IntOf(Tail(a))

\* number of bits of a: those of its leading digit, which is below 2^30,
\* and BaseBits for each digit below it
BitLen(a) ==
    IF a = <<>> THEN 0
    ELSE BaseBits * (Len(a) - 1)
           + (CHOOSE w \in 0..30 :
                 a[Len(a)] < 2^w /\ (w = 0 \/ a[Len(a)] >= 2^(w - 1)))

AddBig(a, b) ==
    Carry([n \in 1..Max(Len(a), Len(b)) |-> Digit(a, n) + Digit(b, n)], 0)

\* a - b for a >= b
SubBig(a, b) == Trim(Carry([n \in 1..Len(a) |-> a[n] - Digit(b, n)], 0))

LessBig(a, b) ==
    \/ Len(a) < Len(b)
    \/ /\ Len(a) = Len(b)
       /\ \E n \in 1..Len(a) :
             /\ a[n] < b[n]
             /\ \A k \in (n + 1)..Len(a) : a[k] = b[k]

\* sum of a[i] * b[n + 1 - i] over i..Len(a)
RECURSIVE Column(_, _, _, _)
Column(a, b, n, i) ==
    IF i > Len(a) THEN 0
    ELSE a[i] * Digit(b, n + 1 - i) + Column(a, b, n, i + 1)

MulBig(a, b) ==
    Trim(Carry([n \in 1..(Len(a) + Len(b)) |-> Column(a, b, n, 1)], 0))

\* a * 2^k
Shl(a, k) ==
    IF a = <<>> THEN a
    ELSE [n \in 1..(k \div BaseBits) |-> 0] \o MulBig(a, <<2^(k % BaseBits)>>)

\* a \div 2^k
Shr(a, k) ==
    LET skip == k \div BaseBits
        s    == 2^(k % BaseBits)
    IN  Trim([n \in 1..(Len(a) - skip) |->
                Digit(a, n + skip) \div s
                  + (Digit(a, n + skip + 1) % s) * (Base \div s)])

\* bit k of a, counted from 1 at the least significant end
BitAt(a, k) ==
    IF k < 1 THEN 0
    ELSE (Digit(a, (k - 1) \div BaseBits + 1) \div 2^((k - 1) % BaseBits)) % 2

\* some bit among the lowest k bits of a is set
LowBits(a, k) == \E n \in 1..k : BitAt(a, n) = 1

\* r \div d for r < d * Base, from the leading bits rh of r and dh of d,
\* whose quotient brackets it within two units: the largest t with
\* d * t <= r among the digits from rh \div (dh + 1) to (rh + 1) \div dh
Bracket(r, d, rh, dh) ==
    CHOOSE t \in (rh \div (dh + 1))..(Base - 1) :
        /\ t <= (rh + 1) \div dh
        /\ ~LessBig(r, MulBig(d, <<t>>))
        /\ \/ t = Base - 1
           \/ t = (rh + 1) \div dh
           \/ LessBig(r, MulBig(d, <<t + 1>>))

\* the quotient digit t of r by d put below the digits q, and the rest of r
Reduce(q, r, d, t) ==
    [q |-> Trim(<<t>> \o q),
     r |-> IF t = 0 THEN r ELSE SubBig(r, MulBig(d, <<t>>))]

\* the bits of r and d below bit BitLen(d) - 15 are left out of the estimate
DivDigit(q, r, d) ==
    Reduce(q, r, d,
           Bracket(r, d, IntOf(Shr(r, Max(0, BitLen(d) - 15))),
                   IntOf(Shr(d, Max(0, BitLen(d) - 15)))))

\* one step of the long division by d: hi is the quotient and remainder of
\* the digits above the digit x
DivStep(hi, x, d) ==
    IF hi.r = <<>> /\ x = 0 THEN [q |-> Trim(<<0>> \o hi.q), r |-> <<>>]
    ELSE DivDigit(hi.q, Trim(<<x>> \o hi.r), d)

\* quotient and remainder of the number made of the digits n.. of a, by d;
\* the leading Len(d) - 1 digits of a are below d
RECURSIVE DivBig(_, _, _)
DivBig(a, d, n) ==
    IF n > Len(a) - Len(d) + 1
    THEN [q |-> <<>>, r |-> Trim(SubSeq(a, Max(n, 1), Len(a)))]
    ELSE DivStep(DivBig(a, d, n + 1), a[n], d)

\* m * 2^e with m of 53 or 54 bits, as a float
Packed(m, e) ==
    IF BitLen(m) = 54 THEN [m |-> Shr(m, 1), e |-> e + 1]
    ELSE [m |-> m, e |-> e]

\* q rounded up by one unit when the bits dropped from it are more than half
\* a unit (half and sticky), or exactly half and q is odd
NearestBig(q, half, sticky) ==
    IF half /\ (sticky \/ BitAt(q, 1) = 1) THEN AddBig(q, <<1>>) ELSE q

\* the float nearest to (q + a fraction) * 2^e, the fraction being zero when
\* exact holds, with the s lowest bits of q dropped
DropBits(q, exact, s, e) ==
    Packed(NearestBig(Shr(q, s), BitAt(q, s) = 1,
                      ~exact \/ LowBits(q, s - 1)), e + s)

\* the float nearest to (qr.q + qr.r / den) * 2^e, qr.q having 55 bits or
\* more
Rounded(qr, e) == DropBits(qr.q, qr.r = <<>>, BitLen(qr.q) - 53, e)

\* the float nearest to num / den * 2^e
Quotient(num, den, e) ==
    Rounded(IF den = <<1>> THEN [q |-> num, r |-> <<>>]
            ELSE DivBig(num, den, 1), e)

\* the float nearest to num / den * 2^e0, from num scaled by a power of two
\* that gives the quotient 55 bits or more
NearestFloat(num, den, e0) ==
    IF num = <<>> \/ den = <<>> THEN [m |-> <<>>, e |-> 0]
    ELSE Quotient(Shl(num, Max(0, 55 + BitLen(den) - BitLen(num))), den,
                  e0 - Max(0, 55 + BitLen(den) - BitLen(num)))

\* p / q of two ints as a float
float_of(p, q) == NearestFloat(Big(p), Big(q), 0)

\* x / y of two floats, without their signs
float_div(x, y) == NearestFloat(x.m, y.m, x.e - y.e)

\* the float x with a sign: neg tells a negative number
WithSign(x, neg) == [m |-> x.m, e |-> x.e, neg |-> neg]

\* the sum of two floats with signs, a * 2^e and b * 2^e without them: the
\* magnitudes add up when the signs agree, else the smaller is taken from
\* the larger, whose sign the sum has; equal magnitudes give 0.0
Summed(xneg, yneg, a, b, e) ==
    IF xneg = yneg THEN WithSign(NearestFloat(AddBig(a, b), <<1>>, e), xneg)
    ELSE IF LessBig(a, b)
    THEN WithSign(NearestFloat(SubBig(b, a), <<1>>, e), yneg)
    ELSE WithSign(NearestFloat(SubBig(a, b), <<1>>, e), xneg /\ a # b)

\* x + y of two floats with signs
float_add(x, y) ==
    IF x.m = <<>> THEN y
    ELSE IF y.m = <<>> THEN x
    ELSE LET e == IF x.e <= y.e THEN x.e ELSE y.e
         IN  Summed(x.neg, y.neg, Shl(x.m, x.e - e), Shl(y.m, y.e - e), e)

\* the floats m * 2^e may be rounded to by an operation whose error is below
\* one unit in the last place: m * 2^e itself when nothing was dropped from
\* it, else it or the float above it
Faithful(m, inexact, e) ==
    {Packed(m, e)}
      \cup (IF inexact THEN {Packed(AddBig(m, <<1>>), e)} ELSE {})

\* p * 2^e in 53 bits, p having more: its lowest bits are dropped
Narrowed(p, e) ==
    Faithful(Shr(p, BitLen(p) - 53), LowBits(p, BitLen(p) - 53),
             e + BitLen(p) - 53)

\* x ** 2 of a float x: CPython calls pow of the C library, whose result is
\* within one unit in the last place of the exact square and is not always
\* the nearest float.  The set holds every float such a pow may return: the
\* exact square when it is a float, else the floats just below and above it
pow_2(x) ==
    IF x.m = <<>> THEN {x} ELSE Narrowed(MulBig(x.m, x.m), 2 * x.e)

\* the integer nearest to n * 2^e, the even one when half way
Hundredths(n, e) ==
    IF e >= 0 THEN Shl(n, e)
    ELSE NearestBig(Shr(n, -e), BitAt(n, -e) = 1, LowBits(n, -e - 1))

\* round(x, 2) in hundredths: the multiple of 0.01 nearest to the exact
\* value of the float x, the even one when x is exactly half way
round_2(x) ==
    IF x.m = <<>> THEN <<>> ELSE Hundredths(MulBig(Big(100), x.m), x.e)

----------------------------------------------------------------------------
(* Decimal numbers.  A Python float that was typed, or read from the JSON
   text, as a decimal numeral is the record [digits, exp] of that numeral,
   digits * 10^exp, in its one canonical form: digits is not divisible by
   10, and zero is [0, 0].  Numerals of up to nine significant digits are
   covered; each is the shortest repr of the float nearest to it, so the
   decimal and the float determine each other. *)

Zero == [digits |-> 0, exp |-> 0]

\* n * 10^e in canonical form
RECURSIVE Dec(_, _)
Dec(n, e) ==
    IF n = 0 THEN Zero
    ELSE IF n % 10 = 0 THEN Dec(n \div 10, e + 1)
    ELSE [digits |-> n, exp |-> e]

\* number of decimal digits of n > 0
Decimals(n) ==
    CHOOSE k \in 1..10 : n >= 10^(k - 1) /\ (k = 10 \/ n < 10^k)

\* the power of ten of the leading digit of d # 0
Exp10(d) == Decimals(Abs(d.digits)) - 1 + d.exp

\* 10^k as a number of any size
RECURSIVE Pow10(_)
Pow10(k) ==
    IF k < 9 THEN Big(10^k) ELSE MulBig(Big(1000000000), Pow10(k - 9))

\* float(repr) of the decimal d, without its sign
float_dec(d) ==
    NearestFloat(MulBig(Big(Abs(d.digits)), Pow10(Max(d.exp, 0))),
                 Pow10(Max(-d.exp, 0)), 0)

\* the decimal a * 10^e of a number a of any size
RECURSIVE Canon(_, _)
CanonStep(a, qr, e) ==
    IF qr.r = <<>> THEN Canon(qr.q, e + 1)
    ELSE [digits |-> IntOf(a), exp |-> e]

Canon(a, e) == IF a = <<>> THEN Zero ELSE CanonStep(a, DivBig(a, <<10>>, 1), e)

\* v ** 2 raises OverflowError: v is a float (below 1.7976931348623158e308)
\* and above the square root of the largest float, 1.3407807929942596e154
pow_overflows(v) ==
    /\ v.digits # 0
    /\ LET len == Decimals(Abs(v.digits))
           e10 == len - 1 + v.exp
       IN  \/ e10 > 154 /\ e10 < 308
           \/ /\ e10 = 154
              /\ IF len = 10 THEN Abs(v.digits) > 1340780792
                 ELSE Abs(v.digits) * 10^(9 - len) > 134078079
           \/ /\ e10 = 308
              /\ IF len = 10 THEN Abs(v.digits) <= 1797693134
                 ELSE Abs(v.digits) * 10^(9 - len) <= 179769313

\* 100 * num / den lies exactly half way between two integers
HalfWay(num, den) == 2 * ((100 * num) % den) = den

\* the hundredth nearest to num / den when that is not half way; a float
\* computed from num and den is nearer to num / den than to any half-way
\* point
NearestHundredth(num, den) ==
    LET scaled == 100 * num
    IN  IF 2 * (scaled % den) < den THEN scaled \div den
        ELSE scaled \div den + 1

\* |weight| / height^2 = Numerator / Denominator, two ints
NumShift(weight, height) == Max(0, weight.exp - 2 * height.exp)

DenShift(weight, height) == Max(0, 2 * height.exp - weight.exp)

Numerator(weight, height) ==
    Abs(weight.digits) * 10^NumShift(weight, height)

Denominator(weight, height) ==
    height.digits * height.digits * 10^DenShift(weight, height)

\* Numerator is below 10^7 and Denominator below 10^9: the quotient is then
\* so far from any half-way point it does not lie on, compared with the
\* error of the three float operations, that its nearest hundredth is the
\* one round() gives
Plain(weight, height) ==
    /\ NumShift(weight, height) <= 6
    /\ DenShift(weight, height) <= 8
    /\ Abs(weight.digits) < 10^(7 - NumShift(weight, height))
    /\ Abs(height.digits) < 10000
    /\ height.digits * height.digits < 10^(9 - DenShift(weight, height))

\* no float of weight / height ** 2 leaves the normal range downwards or
\* upwards (a height whose square overflows is told by pow_overflows)
InRange(weight, height) ==
    /\ Exp10(height) >= -150
    /\ Exp10(height) <= 153
    /\ weight.digits # 0 =>
          /\ Exp10(weight) >= -300
          /\ Exp10(weight) <= 300
          /\ Exp10(weight) - 2 * Exp10(height) <= 300

\* the one member of a set of one
TheOne(S) == CHOOSE v \in S : S = {v}

\* the decimal b, negative when neg holds; -0.0 is no decimal
Signed(neg, b) ==
    CASE ~neg -> b
      [] neg /\ b.digits # 0 -> [b EXCEPT !.digits = -@]

\* Member._calculate_bmi: round(weight / height ** 2, 2); ZeroDivisionError
\* gives 0.0.  The value is the same whichever float pow returns, or the
\* model does not give one.
_calculate_bmi(weight, height) ==
    CASE height.digits = 0 -> Zero
      [] /\ height.digits # 0
         /\ Plain(weight, height)
         /\ ~HalfWay(Numerator(weight, height), Denominator(weight, height))
           -> Signed(weight.digits < 0,
                     Dec(NearestHundredth(Numerator(weight, height),
                                          Denominator(weight, height)), -2))
      [] /\ height.digits # 0
         /\ InRange(weight, height)
         /\ Plain(weight, height) =>
               HalfWay(Numerator(weight, height), Denominator(weight, height))
           -> Signed(weight.digits < 0,
                     Canon(TheOne({ round_2(float_div(float_dec(weight), s)) :
                                      s \in pow_2(float_dec(height)) }), -2))

\* Member.__init__
Member(m_id, name, age, gender, phone, weight, height, tier, t) ==
    [id |-> m_id, name |-> name, age |-> age, gender |-> gender,
     phone |-> phone, weight |-> weight, height |-> height,
     bmi |-> _calculate_bmi(weight, height), tier |-> tier,
     join_date |-> strftime_date(t), attendance_log |-> <<>>]

\* mark_attendance that also moves join_date to the day of the check-in
mark_attendance_rejoin(m, t) ==
    [m EXCEPT !.attendance_log = Append(@, strftime_datetime(t)),
              !.join_date = strftime_date(t)]

\* mark_attendance with the new timestamp put first instead of last
mark_attendance_prepend(m, t) ==
    [m EXCEPT !.attendance_log = <<strftime_datetime(t)>> \o @]

\* Member.mark_attendance
mark_attendance(m, t) ==
    [m EXCEPT !.attendance_log = Append(@, strftime_datetime(t))]

\* Member.to_dict: the instance's __dict__, every attribute including bmi
to_dict(m) ==
    [id |-> m.id, name |-> m.name, age |-> m.age, gender |-> m.gender,
     phone |-> m.phone, weight |-> m.weight, height |-> m.height,
     bmi |-> m.bmi, tier |-> m.tier, join_date |-> m.join_date,
     attendance_log |-> m.attendance_log]

\* from_dict that keeps the bmi stored in the document
from_dict_stored_bmi(data, t) ==
    LET m == Member(data.id, data.name, data.age, data.gender, data.phone,
                    data.weight, data.height, data.tier, t)
    IN  [m EXCEPT
           !.bmi = IF "bmi" \in DOMAIN data THEN data.bmi ELSE @,
           !.join_date = IF "join_date" \in DOMAIN data
                         THEN data.join_date ELSE @,
           !.attendance_log = IF "attendance_log" \in DOMAIN data
                              THEN data.attendance_log ELSE <<>>]

\* from_dict that stamps every loaded member with the day of the load
from_dict_fresh_join(data, t) ==
    LET m == Member(data.id, data.name, data.age, data.gender, data.phone,
                    data.weight, data.height, data.tier, t)
    IN  [m EXCEPT
           !.attendance_log = IF "attendance_log" \in DOMAIN data
                              THEN data.attendance_log ELSE <<>>]

\* from_dict reading every attribute with data[...]: all keys required
RequiredKeysAll ==
    {"id", "name", "age", "gender", "phone", "weight", "height", "tier",
     "join_date", "attendance_log"}

\* the keys from_dict reads with data[...], which raises KeyError when absent
RequiredKeys == {"id", "name", "age", "gender", "phone", "weight", "height", "tier"}

\* Member.from_dict on a JSON object that has the required keys
from_dict(data, t) ==
    LET m == Member(data.id, data.name, data.age, data.gender, data.phone,
                    data.weight, data.height, data.tier, t)
    IN  [m EXCEPT
           !.join_date = IF "join_date" \in DOMAIN data
                         THEN data.join_date ELSE @,
           !.attendance_log = IF "attendance_log" \in DOMAIN data
                              THEN data.attendance_log ELSE <<>>]

----------------------------------------------------------------------------
(* The backing file DB_FILE *)

AbsentFile == [kind |-> "absent", entries |-> <<>>, mode |-> "rw"]

\* what open(DB_FILE, 'w') followed by a write that raised leaves on disk:
\* the old content is gone and only a proper prefix of the new text is there
TruncatedFile == [kind |-> "truncated", entries |-> <<>>]

\* the text of the file, whatever its permissions
Document(f) == [kind |-> f.kind, entries |-> f.entries]

\* the file f after open(DB_FILE, 'w') and a write of text: a file that was
\* there keeps its permissions, a new one can be read and written
Written(f, text) ==
    [kind |-> text.kind, entries |-> text.entries, mode |-> f.mode]

\* a JSON object as a value of the top-level object
JsonObj(fields) == [isobj |-> TRUE, f |-> fields]

\* json.dump of {m_id: m.to_dict() for m_id, m in self.members.items()}
dump(ms) == [kind |-> "doc",
             entries |-> [n \in 1..Len(ms) |->
                            <<ms[n][1], JsonObj(to_dict(ms[n][2]))>>]]

----------------------------------------------------------------------------
(* class GymController *)

MsgWarning == "System Warning: Database corrupted or empty. Starting fresh."
MsgCritical == "Critical Error: Could not save data."

Returned(tag) == [kind |-> "return", tag |-> tag]
Raised(exc) == [kind |-> "raise", tag |-> exc]

\* the loading loop over data.items() that keeps the document's own keys
RECURSIVE LoadEntries_by_key(_, _, _)
LoadEntries_by_key(entries, acc, ts) ==
    IF entries = <<>> THEN [members |-> acc, exc |-> ""]
    ELSE LET m_data == Head(entries)[2]
         IN  IF ~m_data.isobj
             THEN [members |-> acc, exc |-> "TypeError"]
             ELSE IF ~(RequiredKeys \subseteq DOMAIN m_data.f)
             THEN [members |-> acc, exc |-> "KeyError"]
             ELSE IF pow_overflows(m_data.f.height)
             THEN [members |-> acc, exc |-> "OverflowError"]
             ELSE LoadEntries_by_key(Tail(entries),
                                     Put(acc, Head(entries)[1],
                                         from_dict(m_data.f, Head(ts))),
                                     Tail(ts))

\* self.members[member.id] = member
Insert(ms, member) == Put(ms, member.id, member)

\* the loop body of _load_data over data.values(), entry by entry; stops at
\* the first entry that raises.  Member.__init__ reads the clock once for
\* each entry it builds: ts holds the readings still to come, the next one
\* first
RECURSIVE LoadEntries(_, _, _)
LoadEntries(entries, acc, ts) ==
    IF entries = <<>> THEN [members |-> acc, exc |-> ""]
    ELSE LET m_data == Head(entries)[2]
         IN  IF ~m_data.isobj
             THEN [members |-> acc, exc |-> "TypeError"]
             ELSE IF ~(RequiredKeys \subseteq DOMAIN m_data.f)
             THEN [members |-> acc, exc |-> "KeyError"]
             ELSE IF pow_overflows(m_data.f.height)
             THEN [members |-> acc, exc |-> "OverflowError"]
             ELSE LoadEntries(Tail(entries),
                              Insert(acc, from_dict(m_data.f, Head(ts))),
                              Tail(ts))

\* _load_data once the loop r over the entries is left: the print after the
\* loop is reached when no entry raised
AfterLoop(r) ==
    [members |-> r.members, exc |-> r.exc,
     out |-> IF r.exc = "" THEN <<"System: Loaded records from database.">>
             ELSE <<>>]

\* GymController.__init__ : self.members = {} then self._load_data().
\* exc is the exception that leaves _load_data, "" when none does; ts are
\* the readings of the clock, one for each entry of the document.
_load_data(f, ts) ==
    IF f.kind = "absent"
    THEN [members |-> <<>>, exc |-> "", out |-> <<>>]
    ELSE IF f.mode = "w" \/ f.kind \in {"malformed", "truncated"}
    THEN \* IOError from open, json.JSONDecodeError from json.load
         [members |-> <<>>, exc |-> "", out |-> <<MsgWarning>>]
    ELSE IF f.kind = "badbytes"
    THEN [members |-> <<>>, exc |-> "UnicodeDecodeError", out |-> <<>>]
    ELSE IF f.kind = "nonobject"
    THEN [members |-> <<>>, exc |-> "AttributeError", out |-> <<>>]
    ELSE AfterLoop(LoadEntries(f.entries, <<>>, ts))

\* save_data that writes only the member inserted last
save_data_last_only(ms, f, io) ==
    CASE io = "ok" ->
           [file |-> Written(f, dump(IF ms = <<>> THEN ms
                                     ELSE <<ms[Len(ms)]>>)),
            out |-> <<>>]
      [] io = "open_fails" -> [file |-> f, out |-> <<MsgCritical>>]
      [] io = "write_fails" ->
           [file |-> Written(f, TruncatedFile), out |-> <<MsgCritical>>]

\* save_data that leaves a file alone when it does not hold a document it
\* can read
save_data_spare_corrupt(ms, f, io) ==
    CASE io = "ok" ->
           [file |-> IF f.kind \in {"absent", "doc"} /\ f.mode = "rw"
                     THEN Written(f, dump(ms)) ELSE f,
            out |-> <<>>]
      [] io = "open_fails" -> [file |-> f, out |-> <<MsgCritical>>]
      [] io = "write_fails" ->
           [file |-> Written(f, TruncatedFile), out |-> <<MsgCritical>>]

\* save_data that merges the roster into the document already on disk:
\* entries of ids the roster no longer holds stay in the file
save_data_merge(ms, f, io) ==
    CASE io = "ok" ->
           [file |-> [kind |-> "doc",
                      entries |-> dump(ms).entries
                                  \o SelectSeq(f.entries,
                                               LAMBDA e : ~Has(ms, e[1])),
                      mode |-> f.mode],
            out |-> <<>>]
      [] io = "open_fails" -> [file |-> f, out |-> <<MsgCritical>>]
      [] io = "write_fails" ->
           [file |-> Written(f, TruncatedFile), out |-> <<MsgCritical>>]

\* GymController.save_data; io is what the file system does with the write
save_data(ms, f, io) ==
    CASE io = "ok" -> [file |-> Written(f, dump(ms)), out |-> <<>>]
      [] io = "open_fails" -> [file |-> f, out |-> <<MsgCritical>>]
      [] io = "write_fails" ->
           [file |-> Written(f, TruncatedFile), out |-> <<MsgCritical>>]

\* what a call that changed the roster to ms2 and whose save_data did s
\* gives: the roster, the file, what it returns and what it printed
Saved(ms2, s, tag) ==
    [members |-> ms2, file |-> s.file, ret |-> Returned(tag), out |-> s.out]

\* the end of a mutating call, the roster being ms2: self.save_data(), then
\* the return
Stored(ms2, f, io, tag) == Saved(ms2, save_data(ms2, f, io), tag)

\* create_member that saves the roster before it reports a duplicate
create_member_resave(ms, f, m_id, a, t, io) ==
    IF Has(ms, m_id)
    THEN LET s == save_data(ms, f, io)
         IN  [members |-> ms, file |-> s.file,
              ret |-> Raised("DuplicateIdError"), out |-> s.out]
    ELSE LET new_member == Member(m_id, a.name, a.age, a.gender, a.phone,
                                  a.weight, a.height, a.tier, t)
             ms2 == Put(ms, m_id, new_member)
             s   == save_data(ms2, f, io)
         IN  [members |-> ms2, file |-> s.file, ret |-> Returned("None"),
              out |-> s.out]

\* create_member without the duplicate check: the new data replaces the old
create_member_overwrite(ms, f, m_id, a, t, io) ==
    LET new_member == Member(m_id, a.name, a.age, a.gender, a.phone,
                             a.weight, a.height, a.tier, t)
        ms2 == Put(ms, m_id, new_member)
        s   == save_data(ms2, f, io)
    IN  [members |-> ms2, file |-> s.file, ret |-> Returned("None"),
         out |-> s.out]

\* create_member that takes the insertion back when the save fails
create_member_rollback(ms, f, m_id, a, t, io) ==
    IF Has(ms, m_id)
    THEN [members |-> ms, file |-> f, ret |-> Raised("DuplicateIdError"),
          out |-> <<>>]
    ELSE LET new_member == Member(m_id, a.name, a.age, a.gender, a.phone,
                                  a.weight, a.height, a.tier, t)
             ms2 == Put(ms, m_id, new_member)
             s   == save_data(ms2, f, io)
         IN  [members |-> IF s.out = <<>> THEN ms2 ELSE ms,
              file |-> s.file, ret |-> Returned("None"), out |-> s.out]

\* GymController.create_member
create_member(ms, f, m_id, a, t, io) ==
    IF Has(ms, m_id)
    THEN [members |-> ms, file |-> f, ret |-> Raised("DuplicateIdError"),
          out |-> <<>>]
    ELSE IF pow_overflows(a.height)
    THEN [members |-> ms, file |-> f, ret |-> Raised("OverflowError"),
          out |-> <<>>]
    ELSE Stored(Put(ms, m_id, Member(m_id, a.name, a.age, a.gender, a.phone,
                                     a.weight, a.height, a.tier, t)),
                f, io, "None")

\* no Member in the caller's hands
NoHandle == [id |-> "", alias |-> FALSE, obj |-> <<>>]

\* get_member that hands out a copy of the Member (copy.deepcopy)
get_member_copy(ms, m_id) ==
    IF ~Has(ms, m_id)
    THEN [ret |-> Raised("MemberNotFoundError"), member |-> NoHandle]
    ELSE [ret |-> Returned("Member"),
          member |-> [id |-> m_id, alias |-> FALSE, obj |-> Lookup(ms, m_id)]]

\* GymController.get_member: returns self.members[m_id], the instance the
\* dict holds (alias), whose attributes at this moment are obj
get_member(ms, m_id) ==
    IF ~Has(ms, m_id)
    THEN [ret |-> Raised("MemberNotFoundError"), member |-> NoHandle]
    ELSE [ret |-> Returned("Member"),
          member |-> [id |-> m_id, alias |-> TRUE, obj |-> Lookup(ms, m_id)]]

\* delete_member that ignores an unknown id (members.pop(m_id, None))
delete_member_quiet(ms, f, m_id, io) ==
    LET ms2 == Del(ms, m_id)
        s   == save_data(ms2, f, io)
    IN  [members |-> ms2, file |-> s.file, ret |-> Returned("None"),
         out |-> s.out]

\* GymController.delete_member
delete_member(ms, f, m_id, io) ==
    IF Has(ms, m_id)
    THEN Stored(Del(ms, m_id), f, io, "None")
    ELSE [members |-> ms, file |-> f, ret |-> Raised("MemberNotFoundError"),
          out |-> <<>>]

\* log_attendance that checks in every member of the roster
log_attendance_all(ms, f, m_id, t, io) ==
    LET g == get_member(ms, m_id)
    IN  IF g.ret.kind = "raise"
        THEN [members |-> ms, file |-> f, ret |-> g.ret, out |-> <<>>]
        ELSE LET ms2 == [n \in 1..Len(ms) |->
                           <<ms[n][1], mark_attendance(ms[n][2], t)>>]
                 s   == save_data(ms2, f, io)
             IN  [members |-> ms2, file |-> s.file, ret |-> Returned("name"),
                  out |-> s.out]

\* GymController.log_attendance: get_member raises, or gives the Member
\* that mark_attendance changes in place
log_attendance(ms, f, m_id, t, io) ==
    IF get_member(ms, m_id).ret.kind = "raise"
    THEN [members |-> ms, file |-> f, ret |-> get_member(ms, m_id).ret,
          out |-> <<>>]
    ELSE Stored(Put(ms, m_id, mark_attendance(Lookup(ms, m_id), t)),
                f, io, "name")

\* at most 20 members, no bmi negative and each a number of hundredths
\* below 10^6: the average is then so far from any half-way point it does
\* not lie on, compared with the error of the float additions and the
\* division, that its nearest hundredth is the one round() gives
PlainBmis(ms) ==
    /\ Len(ms) <= 20
    /\ \A n \in 1..Len(ms) :
          LET b == ms[n][2].bmi
          IN  /\ b.digits >= 0
              /\ b.digits > 0 =>
                    /\ b.exp >= -2
                    /\ b.exp <= 3
                    /\ b.digits < 10^(4 - b.exp)

\* the exact sum of the bmi values, in hundredths
RECURSIVE SumBmi(_)
SumBmi(ms) ==
    IF ms = <<>> THEN 0
    ELSE Head(ms)[2].bmi.digits * 10^(Head(ms)[2].bmi.exp + 2)
           + SumBmi(Tail(ms))

\* sum(m.bmi for m in self.members.values()): the floats, each with its
\* sign, are added one by one to the running total acc
RECURSIVE sum_bmi(_, _)
sum_bmi(ms, acc) ==
    IF ms = <<>> THEN acc
    ELSE sum_bmi(Tail(ms),
                 float_add(acc, WithSign(float_dec(Head(ms)[2].bmi),
                                         Head(ms)[2].bmi.digits < 0)))

\* round(sum / total, 2) in float arithmetic, sum being the float with sign
\* that sum() gave
Averaged(sum, total) ==
    Signed(sum.neg,
           Canon(round_2(float_div(sum, float_of(total, 1))), -2))

\* round(sum(...) / total, 2): the hundredth nearest to the exact average
\* of a roster of plain bmi values when that is not half way, and the
\* result of the float operations for every other roster
avg_bmi(ms) ==
    CASE PlainBmis(ms) /\ ~HalfWay(SumBmi(ms), 100 * Len(ms))
           -> Dec(NearestHundredth(SumBmi(ms), 100 * Len(ms)), -2)
      [] PlainBmis(ms) => HalfWay(SumBmi(ms), 100 * Len(ms))
           -> Averaged(sum_bmi(ms, WithSign(float_of(0, 1), FALSE)), Len(ms))

\* len([m for m in self.members.values() if m.tier == tier])
CountTier(ms, tier) == Len(SelectSeq(ms, LAMBDA p : p[2].tier = tier))

\* get_analytics that files every tier it does not know under Basic
get_analytics_default_basic(ms) ==
    LET total == Len(ms)
    IN  IF total = 0
        THEN [total |-> 0, avg_bmi |-> 0]
        ELSE [total |-> total,
              avg_bmi |-> avg_bmi(ms),
              tiers |-> [Basic |-> total - CountTier(ms, "Premium")
                                         - CountTier(ms, "VIP"),
                         Premium |-> CountTier(ms, "Premium"),
                         VIP |-> CountTier(ms, "VIP")]]

\* GymController.get_analytics: the dict it returns; avg_bmi is the int 0 of
\* the code on an empty roster and a decimal otherwise
get_analytics(ms) ==
    LET total == Len(ms)
    IN  IF total = 0
        THEN [total |-> 0, avg_bmi |-> 0]
        ELSE [total |-> total,
              avg_bmi |-> avg_bmi(ms),
              tiers |-> [Basic |-> CountTier(ms, "Basic"),
                         Premium |-> CountTier(ms, "Premium"),
                         VIP |-> CountTier(ms, "VIP")]]

----------------------------------------------------------------------------
(* Files the first run may find on disk *)

Ann == [name |-> "Ann", age |-> 30, gender |-> "F", phone |-> "555",
        weight |-> Dec(60, 0), height |-> Dec(16, -1), tier |-> "Basic"]

Bob == [name |-> "Bob", age |-> 41, gender |-> "M", phone |-> "556",
        weight |-> Dec(80, 0), height |-> Dec(2, 0), tier |-> "VIP"]

EntryOf(m_id, a) ==
    to_dict(Member(m_id, a.name, a.age, a.gender, a.phone,
                   a.weight, a.height, a.tier, 0))

Without(rec, key) == [k \in DOMAIN rec \ {key} |-> rec[k]]

Doc(entries) == [kind |-> "doc", entries |-> entries, mode |-> "rw"]

InitFiles ==
    { AbsentFile,
      [kind |-> "malformed", entries |-> <<>>, mode |-> "rw"],
      \* a document the process may write but not read (permissions 0222)
      [Doc(<< <<"M1", JsonObj(EntryOf("M1", Ann))>> >>) EXCEPT !.mode = "w"],
      [kind |-> "badbytes", entries |-> <<>>, mode |-> "rw"],
      [kind |-> "nonobject", entries |-> <<>>, mode |-> "rw"],
      Doc(<<>>),
      \* one member with a visit, the stored bmi is stale
      Doc(<< <<"M1", JsonObj([EntryOf("M1", Ann) EXCEPT
                                !.bmi = Dec(999, -1),
                                !.attendance_log = << <<0, 0>> >>])>> >>),
      \* top-level keys differ from the inner ids, two entries share an id
      Doc(<< <<"M2", JsonObj(EntryOf("M1", Ann))>>,
             <<"M1", JsonObj(EntryOf("M1", Bob))>> >>),
      \* documents of an older schema, the second a Premium member with a
      \* negative weight
      Doc(<< <<"M1", JsonObj(Without(EntryOf("M1", Ann), "join_date"))>>,
             <<"M2", JsonObj(Without(EntryOf("M2", [Bob EXCEPT
                                                      !.weight = Dec(-80, 0),
                                                      !.tier = "Premium"]),
                                     "join_date"))>> >>),
      Doc(<< <<"M1", JsonObj(Without(EntryOf("M1", Ann), "attendance_log"))>> >>),
      \* well-formed JSON of the wrong shape: an entry without a name, an
      \* entry that is no JSON object (a number, a string, a list, null)
      Doc(<< <<"M1", JsonObj(Without(EntryOf("M1", Ann), "name"))>> >>),
      Doc(<< <<"M1", JsonObj(EntryOf("M1", Ann))>>, <<"M2", [isobj |-> FALSE, f |-> <<>>]>> >>) }

----------------------------------------------------------------------------
(* The state machine *)

\* the readings datetime.now() may give a call: the wall clock of the host
\* moves on, stands still within a second, or is set back, so a reading may
\* be later than, equal to or earlier than the one before it
Clock == (SecondsPerDay - 1)..MaxClock

\* the file system may refuse a write only MaxFails times
Io == { io \in {"ok", "open_fails", "write_fails"} :
           io = "ok" \/ fails < MaxFails }

RECURSIVE TotalLog(_)
TotalLog(ms) ==
    IF ms = <<>> THEN 0
    ELSE Len(Head(ms)[2].attendance_log) + TotalLog(Tail(ms))

\* the check-ins the Members of the process hold: those of the roster and
\* those of a Member the caller holds that is no longer in it
CheckIns ==
    TotalLog(members)
      + (IF held = NoHandle \/ held.alias THEN 0
         ELSE Len(held.obj.attendance_log))

Failed(o) == IF MsgCritical \in { o[n] : n \in 1..Len(o) } THEN 1 ELSE 0

\* the readings of the clock during a start of the program on the file f:
\* one for each entry of the document, in the order of the entries, and a
\* single one (the time of the start) when there is no entry to build a
\* Member from; here the clock shows t throughout
Steady(f, t) == [n \in 1..Max(1, Len(f.entries)) |-> t]

\* the first process, r being what _load_data did in GymController.__init__
\* and ts what it read off the clock
Constructed(r, ts) ==
    /\ phase = IF r.exc = "" THEN "running" ELSE "crashed"
    /\ members = IF r.exc = "" THEN r.members ELSE <<>>
    /\ call = [op |-> "__init__", id |-> "", args |-> NoArgs, read |-> ts]
    /\ ret = IF r.exc = "" THEN Returned("None") ELSE Raised(r.exc)
    /\ out = r.out

Construct(f, ts) ==
    /\ file = f
    /\ now = ts[Len(ts)]
    /\ Constructed(_load_data(f, ts), ts)
    /\ fails = 0
    /\ held = NoHandle

\* the first run takes place within the last second of day 0
Init == \E f \in InitFiles : Construct(f, Steady(f, SecondsPerDay - 1))

\* the new process, r being what _load_data did in GymController.__init__
Restarted(r, ts) ==
    /\ phase' = IF r.exc = "" THEN "running" ELSE "crashed"
    /\ members' = IF r.exc = "" THEN r.members ELSE <<>>
    /\ call' = [op |-> "__init__", id |-> "", args |-> NoArgs, read |-> ts]
    /\ ret' = IF r.exc = "" THEN Returned("None") ELSE Raised(r.exc)
    /\ out' = r.out

\* the process ends (menu option 7 or an uncaught exception) and a new one
\* is started: GymController.__init__ runs on the file as it is
Restart ==
    \E ts \in [1..Max(1, Len(file.entries)) -> Clock] :
        /\ now' = ts[Len(ts)]
        /\ Restarted(_load_data(file, ts), ts)
        /\ held' = NoHandle
        /\ UNCHANGED <<file, fails>>

\* the roster, the file and the output after a call that did r. A call that
\* raises before its save_data does not reach the file system: there is an
\* outcome of the write to choose only when the call returns
Called(r, io) ==
    /\ r.ret.kind = "raise" => io = "ok"
    /\ members' = r.members
    /\ file' = r.file
    /\ ret' = r.ret
    /\ out' = r.out
    /\ fails' = fails + Failed(r.out)

Create ==
    /\ phase = "running"
    /\ \E m_id \in Ids, a \in Profiles, t \in Clock, io \in Io :
        /\ Called(create_member(members, file, m_id, a, t, io), io)
        /\ now' = t
        /\ call' = [op |-> "create_member", id |-> m_id, args |-> a]
        /\ UNCHANGED <<phase, held>>

Get ==
    /\ phase = "running"
    /\ \E m_id \in Ids :
        /\ call' = [op |-> "get_member", id |-> m_id, args |-> NoArgs]
        /\ ret' = get_member(members, m_id).ret
        /\ out' = <<>>
        /\ UNCHANGED <<members, file, now, phase, fails, held>>

\* get_member by a caller that keeps the Member it is given
GetHold ==
    /\ phase = "running"
    /\ \E m_id \in Ids :
        /\ call' = [op |-> "get_member", id |-> m_id, args |-> NoArgs]
        /\ ret' = get_member(members, m_id).ret
        /\ out' = <<>>
        /\ held' = IF Has(members, m_id) THEN get_member(members, m_id).member
                   ELSE held
        /\ UNCHANGED <<members, file, now, phase, fails>>

\* GymController.get_analytics
GetAnalytics ==
    /\ phase = "running"
    /\ call' = [op |-> "get_analytics", id |-> "", args |-> NoArgs]
    /\ ret' = [kind |-> "return", tag |-> "dict",
               stats |-> get_analytics(members)]
    /\ out' = <<>>
    /\ UNCHANGED <<members, file, now, phase, fails, held>>

\* the read-only enumeration of the roster: self.members.values()
Enumerate ==
    /\ phase = "running"
    /\ call' = [op |-> "members.values", id |-> "", args |-> NoArgs]
    /\ ret' = Returned("values")
    /\ out' = <<>>
    /\ UNCHANGED <<members, file, now, phase, fails, held>>

\* the Member the caller holds stays as it is when delete_member takes it out
\* of the dict; it is then no longer the Member of the roster
Delete ==
    /\ phase = "running"
    /\ \E m_id \in Ids, io \in Io :
        /\ Called(delete_member(members, file, m_id, io), io)
        /\ call' = [op |-> "delete_member", id |-> m_id, args |-> NoArgs]
        /\ held' = IF held.id = m_id /\ Has(members, m_id)
                   THEN [held EXCEPT !.alias = FALSE] ELSE held
        /\ UNCHANGED <<now, phase>>

\* The Member the caller holds, when it is the instance in the dict (an
\* alias), is the one mark_attendance changes in place; a copy, or a Member
\* that delete_member took out of the dict, stays as it was
LogAttendance ==
    /\ phase = "running"
    /\ \E m_id \in Ids, t \in Clock, io \in Io :
        /\ Has(members, m_id) => CheckIns < MaxLog
        /\ Called(log_attendance(members, file, m_id, t, io), io)
        /\ now' = t
        /\ call' = [op |-> "log_attendance", id |-> m_id, args |-> NoArgs]
        /\ held' = IF held.alias /\ Has(members', held.id)
                   THEN [held EXCEPT !.obj = Lookup(members', held.id)]
                   ELSE held
        /\ UNCHANGED phase

\* Member.mark_attendance called by the caller on the Member it holds: the
\* instance in the dict changes with it, nothing is saved or printed
MarkHeld ==
    /\ phase = "running"
    /\ held # NoHandle
    /\ CheckIns < MaxLog
    /\ \E t \in Clock :
        /\ held' = [held EXCEPT !.obj = mark_attendance(@, t)]
        /\ members' = IF held.alias THEN Put(members, held.id, held'.obj)
                      ELSE members
        /\ now' = t
        /\ call' = [op |-> "mark_attendance", id |-> held.id, args |-> NoArgs]
        /\ ret' = Returned("None")
        /\ out' = <<>>
        /\ UNCHANGED <<file, phase, fails>>

\* GymController.save_data called on its own
Save ==
    /\ phase = "running"
    /\ \E io \in Io :
        /\ Called(Saved(members, save_data(members, file, io), "None"), io)
        /\ call' = [op |-> "save_data", id |-> "", args |-> NoArgs]
        /\ UNCHANGED <<now, phase, held>>

\* the controller with its mutating calls, get_member and save_data, on a
\* disk that may refuse a write
Next == Restart \/ Create \/ Get \/ Delete \/ LogAttendance \/ Save

Spec == Init /\ [][Next]_vars

\* a step in which no open() or write of the backing file raised IOError
NoIOError == fails' = fails

\* the controller as its callers see it, on a disk that takes every write:
\* the caller looks members up, reads the analytics and enumerates the roster
NextRef ==
    \/ Restart
    \/ Create /\ NoIOError
    \/ Get
    \/ Delete /\ NoIOError
    \/ LogAttendance /\ NoIOError
    \/ GetAnalytics
    \/ Enumerate

SpecRef == Init /\ [][NextRef]_vars

\* one run of a caller that keeps the Member get_member gives it and may
\* mark attendance on it directly, on a disk that takes every write
NextHold ==
    \/ Create /\ NoIOError
    \/ GetHold
    \/ MarkHeld
    \/ Delete /\ NoIOError
    \/ LogAttendance /\ NoIOError

\* the first run of the program: there is no file yet
InitFirstRun == Construct(AbsentFile, Steady(AbsentFile, SecondsPerDay - 1))

SpecHold == InitFirstRun /\ [][NextHold]_vars

----------------------------------------------------------------------------
(* class CLI: the program as it is run, one menu choice per step. call and
   ret record the controller call the chosen view makes and what it gave
   back to the view; exc is the exception that leaves the view, "" when
   none does; out is everything printed. *)


(* A line typed at a prompt is the sequence of the code points of its
   characters, each in 0..255 (Latin-1); the str methods are not given for
   other characters.  The strings the controller stores and compares stay
   whole; Spelling gives the code points of each string of the model, and
   Str the string of a text. *)

Chars == 0..255

\* the characters str.strip removes: \t \n \x0b \f \r, \x1c to \x1f, space,
\* \x85 and \xa0
Whitespace == {9, 10, 11, 12, 13, 28, 29, 30, 31, 32, 133, 160}

\* a to z, the micro sign, sharp s, and the accented small letters
HasUpper == (97..122) \cup {181} \cup (223..246) \cup (248..255)

\* A to Z and the accented capital letters
HasLower == (65..90) \cup (192..214) \cup (216..222)

\* str.upper of one character: sharp s becomes SS, the micro sign the Greek
\* capital mu, y with diaeresis the capital of code point 376
upper_char(c) ==
    CASE c = 223 -> <<83, 83>>
      [] c = 181 -> <<924>>
      [] c = 255 -> <<376>>
      [] c \in HasUpper \ {181, 223, 255} -> <<c - 32>>
      [] c \in Chars \ HasUpper -> <<c>>

\* str.lower of one character
lower_char(c) ==
    CASE c \in HasLower -> c + 32
      [] c \in Chars \ HasLower -> c

\* str.upper
RECURSIVE upper(_)
upper(s) == IF s = <<>> THEN <<>> ELSE upper_char(Head(s)) \o upper(Tail(s))

\* str.lower
lower(s) == [n \in 1..Len(s) |-> lower_char(s[n])]

\* str.capitalize: the first character in title case (sharp s becomes Ss),
\* the rest in lower case
capitalize(s) ==
    IF s = <<>> THEN <<>>
    ELSE (IF Head(s) = 223 THEN <<83, 115>> ELSE upper_char(Head(s)))
           \o lower(Tail(s))

\* s without the characters of ws at either end
Stripped(s, ws) ==
    LET ink == { n \in 1..Len(s) : s[n] \notin ws }
    IN  IF ink = {} THEN <<>>
        ELSE SubSeq(s, CHOOSE n \in ink : \A k \in ink : n <= k,
                       CHOOSE n \in ink : \A k \in ink : k <= n)

\* str.strip
strip(s) == Stripped(s, Whitespace)

Spelling ==
    [w \in {"M1", "M2", " M2 ", "Ann", "Cy", "F", "O", "SS",
            "555", "557", "Basic", "Premium", "VIP"} |->
       CASE w = "M1" -> <<77, 49>>
         [] w = "M2" -> <<77, 50>>
         [] w = " M2 " -> <<32, 77, 50, 32>>
         [] w = "Ann" -> <<65, 110, 110>>
         [] w = "Cy" -> <<67, 121>>
         [] w = "F" -> <<70>>
         [] w = "O" -> <<79>>
         [] w = "SS" -> <<83, 83>>
         [] w = "555" -> <<53, 53, 53>>
         [] w = "557" -> <<53, 53, 55>>
         [] w = "Basic" -> <<66, 97, 115, 105, 99>>
         [] w = "Premium" -> <<80, 114, 101, 109, 105, 117, 109>>
         [] w = "VIP" -> <<86, 73, 80>>]

Str(text) == CHOOSE w \in DOMAIN Spelling : Spelling[w] = text

\* the white space int and float skip at either end of their argument
NumberSpace == {9, 10, 11, 12, 13, 32, 133, 160}

\* digits 0 to 9, with single underscores between digits
DigitRun(s) ==
    /\ s # <<>>
    /\ s[1] \in 48..57
    /\ s[Len(s)] \in 48..57
    /\ \A n \in 1..Len(s) :
          \/ s[n] \in 48..57
          \/ s[n] = 95 /\ s[n - 1] \in 48..57 /\ s[n + 1] \in 48..57

\* s without a leading + or -
Unsigned(s) == IF s # <<>> /\ s[1] \in {43, 45} THEN Tail(s) ELSE s

\* the number written by the digits of s, the underscores left out
RECURSIVE Number(_)
Number(s) ==
    IF s = <<>> THEN 0
    ELSE IF s[Len(s)] = 95 THEN Number(SubSeq(s, 1, Len(s) - 1))
    ELSE 10 * Number(SubSeq(s, 1, Len(s) - 1)) + s[Len(s)] - 48

\* the digits of s with the sign sign begins with, if any
SignedNumber(s, sign) ==
    IF sign # <<>> /\ sign[1] = 45 THEN -Number(s) ELSE Number(s)

\* sys.int_info.default_max_str_digits: the digits int() converts at most
default_max_str_digits == 4300

\* int(s) does not raise ValueError: a run of digits after the white space
\* and the sign, of no more digits than the limit (underscores, sign and
\* white space are not counted, leading zeros are)
IsInt(s) ==
    /\ DigitRun(Unsigned(Stripped(s, NumberSpace)))
    /\ Len(SelectSeq(s, LAMBDA c : c \in 48..57)) <= default_max_str_digits

\* int(s), for a text int accepts
int_(s) ==
    CASE IsInt(s) -> SignedNumber(Unsigned(Stripped(s, NumberSpace)),
                                  Stripped(s, NumberSpace))

\* the place of the first character of s that is in cs, Len(s) + 1 when
\* there is none
FirstAt(s, cs) ==
    LET at == { n \in 1..Len(s) : s[n] \in cs }
    IN  IF at = {} THEN Len(s) + 1 ELSE CHOOSE n \in at : \A k \in at : n <= k

\* the parts of an unsigned decimal literal u: what stands before the first
\* e or E and what stands after it; of the former, what stands before the
\* first point and what stands after it
MantissaOf(u) == SubSeq(u, 1, FirstAt(u, {69, 101}) - 1)

ExponentOf(u) == SubSeq(u, FirstAt(u, {69, 101}) + 1, Len(u))

IntPart(u) == SubSeq(MantissaOf(u), 1, FirstAt(MantissaOf(u), {46}) - 1)

FracPart(u) ==
    SubSeq(MantissaOf(u), FirstAt(MantissaOf(u), {46}) + 1, Len(MantissaOf(u)))

\* digits [. [digits]] or . digits, then e or E, a sign and digits if any
IsDecimal(u) ==
    /\ IF FirstAt(MantissaOf(u), {46}) > Len(MantissaOf(u))
       THEN DigitRun(MantissaOf(u))
       ELSE /\ IntPart(u) = <<>> \/ DigitRun(IntPart(u))
            /\ FracPart(u) = <<>> \/ DigitRun(FracPart(u))
            /\ IntPart(u) # <<>> \/ FracPart(u) # <<>>
    /\ FirstAt(u, {69, 101}) <= Len(u) => DigitRun(Unsigned(ExponentOf(u)))

\* float(s) does not raise ValueError: a decimal literal, or inf, infinity
\* or nan in any case
IsFloat(s) ==
    \/ lower(Unsigned(Stripped(s, NumberSpace)))
          \in {<<105, 110, 102>>, <<110, 97, 110>>,
               <<105, 110, 102, 105, 110, 105, 116, 121>>}
    \/ IsDecimal(Unsigned(Stripped(s, NumberSpace)))

\* the number that is not a negative zero, an infinity or one of the
\* smallest floats
Finite(d) ==
    CASE d.digits # 0 /\ Exp10(d) >= -300 /\ Exp10(d) <= 307 -> d

\* float(s) of a decimal literal body with the sign of sign: the digits,
\* times ten to the power of the exponent less the number of digits after
\* the point
Decimal(u, sign) ==
    CASE Number(IntPart(u) \o FracPart(u)) # 0 ->
           Finite(Dec(SignedNumber(IntPart(u) \o FracPart(u), sign),
                      SignedNumber(Unsigned(ExponentOf(u)), ExponentOf(u))
                        - Len(SelectSeq(FracPart(u),
                                        LAMBDA c : c \in 48..57))))
      [] Number(IntPart(u) \o FracPart(u)) = 0 /\ (sign = <<>> \/ sign[1] # 45)
           -> Zero

\* float(s), for a text that float accepts as a decimal literal
float_(s) ==
    CASE IsDecimal(Unsigned(Stripped(s, NumberSpace))) ->
           Decimal(Unsigned(Stripped(s, NumberSpace)),
                   Stripped(s, NumberSpace))


\* type_func(s) does not raise ValueError
Accepts(type_func, s) ==
    CASE type_func = "int" -> IsInt(s)
      [] type_func = "float" -> IsFloat(s)

Converted(type_func, s) ==
    CASE type_func = "int" -> int_(s)
      [] type_func = "float" -> float_(s)

\* CLI.get_valid_input: lines are the lines typed at the prompt from now on,
\* out what is printed until one of them is accepted; the except ValueError
\* clause prints error_msg before the next pass of the loop
RECURSIVE get_valid_input(_, _)
get_valid_input(lines, type_func) ==
    IF Accepts(type_func, strip(Head(lines)))
    THEN [value |-> Converted(type_func, strip(Head(lines))), out |-> <<>>]
    ELSE [get_valid_input(Tail(lines), type_func) EXCEPT
            !.out = <<"Invalid input">> \o @]

\* view_register from its call of create_member on, which did r: the success
\* line, or the message of the except DuplicateIdError clause; said is what
\* was printed at the prompts
Registered(r, m_id, args, said) ==
    [members |-> r.members, file |-> r.file,
     call |-> [op |-> "create_member", id |-> m_id, args |-> args],
     ret |-> r.ret,
     out |-> said \o r.out
               \o (IF r.ret.kind = "return" THEN <<"Success: registered.">>
                   ELSE IF r.ret = Raised("DuplicateIdError")
                   THEN <<"Error: duplicate id.">> ELSE <<>>),
     exc |-> IF r.ret.kind = "return" \/ r.ret = Raised("DuplicateIdError")
             THEN "" ELSE r.ret.tag]

\* view_register up to its call of create_member, the answers of
\* get_valid_input being age, weight and height: the id and the arguments of
\* the call, and what was printed at the prompts. A tier that is not one of
\* the three after capitalize becomes "Basic"
Answered(typed, age, weight, height) ==
    [id |-> Str(strip(typed.id)),
     args |-> [name |-> Str(strip(typed.name)),
               age |-> age.value,
               gender |-> Str(upper(typed.gender)),
               phone |-> Str(typed.phone),
               weight |-> weight.value,
               height |-> height.value,
               tier |-> IF capitalize(typed.tier)
                             \in {Spelling["Basic"], Spelling["Premium"],
                                  Spelling["VIP"]}
                        THEN Str(capitalize(typed.tier)) ELSE "Basic"],
     said |-> age.out \o weight.out \o height.out]

\* typed holds what is typed at the eight prompts: one line each, and at
\* Age, Weight and Height the lines typed until one is accepted
Entered(typed) ==
    Answered(typed, get_valid_input(typed.age, "int"),
             get_valid_input(typed.weight, "float"),
             get_valid_input(typed.height, "float"))

\* CLI.view_register, e being what the prompts gave (Entered). An exception
\* other than DuplicateIdError leaves the view.
view_register(ms, f, e, t, io) ==
    Registered(create_member(ms, f, e.id, e.args, t, io), e.id, e.args, e.said)

\* CLI.view_all: reads controller.members.values()
view_all(ms, f) ==
    [members |-> ms, file |-> f,
     call |-> [op |-> "members.values", id |-> "", args |-> NoArgs],
     ret |-> Returned("values"),
     out |-> IF ms = <<>> THEN <<"Database empty.">>
             ELSE <<"ID Name Tier BMI Status">>,
     exc |-> ""]

\* a view after its controller call op(m_id), which did r: the line of the
\* try block, or that of the except MemberNotFoundError clause
Viewed(r, op, m_id, done, missing) ==
    [members |-> r.members, file |-> r.file,
     call |-> [op |-> op, id |-> m_id, args |-> NoArgs],
     ret |-> r.ret,
     out |-> r.out \o (IF r.ret.kind = "raise" THEN <<missing>>
                       ELSE <<done>>),
     exc |-> ""]

\* CLI.view_check_in
view_check_in(ms, f, typed, t, io) ==
    Viewed(log_attendance(ms, f, Str(typed), t, io), "log_attendance",
           Str(typed), "Welcome back!", "ID not recognized.")

\* CLI.view_search
view_search(ms, f, typed) ==
    [members |-> ms, file |-> f,
     call |-> [op |-> "get_member", id |-> Str(typed), args |-> NoArgs],
     ret |-> get_member(ms, Str(typed)).ret,
     out |-> IF Has(ms, Str(typed)) THEN <<"Profile">>
             ELSE <<"Member not found.">>,
     exc |-> ""]

\* CLI.view_delete: the controller is called only when the answer to "Are
\* you sure" is y or Y
view_delete(ms, f, typed, answer, io) ==
    IF lower(answer) # <<121>>
    THEN [members |-> ms, file |-> f,
          call |-> [op |-> "view_delete", id |-> Str(typed), args |-> NoArgs],
          ret |-> Returned("None"), out |-> <<>>, exc |-> ""]
    ELSE Viewed(delete_member(ms, f, Str(typed), io), "delete_member",
                Str(typed), "Record deleted.", "ID not found.")

\* view_analytics once get_analytics gave stats
Analysed(ms, f, stats) ==
    [members |-> ms, file |-> f,
     call |-> [op |-> "get_analytics", id |-> "", args |-> NoArgs],
     ret |-> [kind |-> "return", tag |-> "dict", stats |-> stats],
     out |-> <<"Total Members, Average BMI, Membership Distribution:">>,
     exc |-> IF "tiers" \in DOMAIN stats THEN "" ELSE "KeyError"]

\* CLI.view_analytics: prints stats['total'], stats['avg_bmi'] and then
\* iterates stats['tiers'], a KeyError when the dict has no such key
view_analytics(ms, f) == Analysed(ms, f, get_analytics(ms))

\* CLI.menu: one pass of the loop with a choice 1 to 6. v is what the view
\* did; an exception that leaves the view leaves menu() and ends the process
Menu(v, t) ==
    /\ members' = IF v.exc = "" THEN v.members ELSE <<>>
    /\ file' = v.file
    /\ now' = t
    /\ phase' = IF v.exc = "" THEN "running" ELSE "crashed"
    /\ call' = v.call
    /\ ret' = v.ret
    /\ out' = v.out
    /\ fails' = fails + Failed(v.out)
    /\ held' = NoHandle

\* what is typed at the prompts of "Register New Member": as M1 or " M2 ",
\* "\x0bAnn\xa0", Enter alone at Age and then "30", "f", "555", "61.5", "1.6"
\* and "PREMIUM"; or as M1, "Cy", "25", sharp s, "557", "x" at Weight and
\* then "70", a height of "0" or "1e200" and a tier of "VIP", "basic" or
\* sharp s followed by "asic"
Registrations ==
    { [id |-> id, name |-> <<11, 65, 110, 110, 160>>, age |-> <<<<>>, <<51, 48>>>>,
       gender |-> <<102>>, phone |-> <<53, 53, 53>>,
       weight |-> <<<<54, 49, 46, 53>>>>, height |-> <<<<49, 46, 54>>>>,
       tier |-> <<80, 82, 69, 77, 73, 85, 77>>] :
         id \in {<<77, 49>>, <<32, 77, 50, 32>>} }
    \cup
    { [id |-> <<77, 49>>, name |-> <<67, 121>>, age |-> <<<<50, 53>>>>,
       gender |-> <<223>>, phone |-> <<53, 53, 55>>,
       weight |-> <<<<120>>, <<55, 48>>>>, height |-> <<h>>, tier |-> tier] :
         h \in {<<48>>, <<49, 101, 50, 48, 48>>},
         tier \in {<<86, 73, 80>>, <<98, 97, 115, 105, 99>>,
                   <<223, 97, 115, 105, 99>>} }

\* what is typed where a view asks for the id of a member: M1, M2, " M2 "
TypedIds == {<<77, 49>>, <<77, 50>>, <<32, 77, 50, 32>>}

\* answers to "Are you sure you want to delete": y, Y, n
Answers == {<<121>>, <<89>>, <<110>>}

\* the prompts of "Register New Member" as answered by each registration
Entries == { Entered(typed) : typed \in Registrations }

MenuRegister ==
    /\ phase = "running"
    /\ \E e \in Entries, t \in Clock, io \in Io :
          Menu(view_register(members, file, e, t, io), t)

MenuAll ==
    /\ phase = "running"
    /\ Menu(view_all(members, file), now)

MenuCheckIn ==
    /\ phase = "running"
    /\ \E typed \in TypedIds, t \in Clock, io \in Io :
          /\ Has(members, Str(typed)) => TotalLog(members) < MaxLog
          /\ Menu(view_check_in(members, file, typed, t, io), t)

MenuSearch ==
    /\ phase = "running"
    /\ \E typed \in TypedIds : Menu(view_search(members, file, typed), now)

MenuDelete ==
    /\ phase = "running"
    /\ \E typed \in TypedIds, answer \in Answers, io \in Io :
          Menu(view_delete(members, file, typed, answer, io), now)

MenuAnalytics ==
    /\ phase = "running"
    /\ Menu(view_analytics(members, file), now)

\* choice 7: sys.exit()
MenuExit ==
    /\ phase = "running"
    /\ phase' = "exited"
    /\ members' = <<>>
    /\ call' = [op |-> "sys.exit", id |-> "", args |-> NoArgs]
    /\ ret' = Raised("SystemExit")
    /\ out' = <<"Saving data... Goodbye!">>
    /\ held' = NoHandle
    /\ UNCHANGED <<file, now, fails>>

NextMenu ==
    \/ Restart \/ MenuRegister \/ MenuAll \/ MenuCheckIn \/ MenuSearch
    \/ MenuDelete \/ MenuAnalytics \/ MenuExit

SpecMenu == Init /\ [][NextMenu]_vars

TypeOK ==
    /\ phase \in {"running", "crashed", "exited"}
    /\ now \in 0..MaxClock
    /\ fails \in 0..MaxFails
    /\ Keys(members) \subseteq Ids
    /\ held = NoHandle \/ held.id \in Ids

----------------------------------------------------------------------------
(* Vocabulary of the properties *)

Mutating == {"create_member", "delete_member", "log_attendance"}

SaveFailed == MsgCritical \in { out[n] : n \in 1..Len(out) }

IsPrefix(a, b) == Len(a) <= Len(b) /\ SubSeq(b, 1, Len(a)) = a

Sorted(log) == \A n \in 1..(Len(log) - 1) : TsLeq(log[n], log[n + 1])

LogOf(ms, i) == Lookup(ms, i).attendance_log

\* the entries of a document whose inner id is i, in file order
EntriesFor(f, i) ==
    SelectSeq(f.entries, LAMBDA e : e[2].isobj /\ "id" \in DOMAIN e[2].f
                                    /\ e[2].f.id = i)

\* the attendance log the document holds for member i (its last entry),
\* read off the document
StoredLog(f, i) ==
    LET es == EntriesFor(f, i)
        d  == es[Len(es)][2].f
    IN  IF "attendance_log" \in DOMAIN d THEN d.attendance_log ELSE <<>>

\* a file the process can open for reading
Readable(f) == f.mode = "rw"

\* the decimal d, a whole number of units of 10^-k, in these units
Units(d, k) == d.digits * 10^(d.exp + k)

\* the place in the document of the last entry whose inner id is i
LastEntry(f, i) ==
    CHOOSE n \in 1..Len(f.entries) :
        /\ f.entries[n][2].f.id = i
        /\ \A k \in (n + 1)..Len(f.entries) : f.entries[k][2].f.id # i

\* a readable document every entry of which has the shape of a serialized
\* Member
ValidRoster(f) ==
    /\ Readable(f)
    /\ f.kind = "doc"
    /\ \A n \in 1..Len(f.entries) :
          /\ f.entries[n][2].isobj
          /\ RequiredKeys \subseteq DOMAIN f.entries[n][2].f

----------------------------------------------------------------------------
(* C1: create_member with an id that is already a key of the roster raises
   DuplicateIdError and changes neither the roster (same ids, the existing
   member keeps every field and its attendance log) nor the file. *)
C1_DuplicateCreateRejected ==
    [][ (call'.op = "create_member" /\ Has(members, call'.id))
          => /\ ret' = Raised("DuplicateIdError")
             /\ members' = members
             /\ file' = file ]_vars

\* a duplicate create whose data differ from the member already stored
C1_Witness ==
    /\ call.op = "create_member"
    /\ ret = Raised("DuplicateIdError")
    /\ Has(members, call.id)
    /\ Lookup(members, call.id).name # call.args.name
    /\ LogOf(members, call.id) # <<>>

(* C2: get_member, delete_member and log_attendance with an id that is not
   a key of the roster raise MemberNotFoundError and change neither the
   roster nor the file. *)
C2_UnknownIdRejected ==
    [][ (call'.op \in {"get_member", "delete_member", "log_attendance"}
         /\ ~Has(members, call'.id))
          => /\ ret' = Raised("MemberNotFoundError")
             /\ members' = members
             /\ file' = file ]_vars

\* a delete of an unknown id while another member is in the roster
C2_Witness ==
    /\ call.op = "delete_member"
    /\ ret = Raised("MemberNotFoundError")
    /\ ~Has(members, call.id)
    /\ members # <<>>

(* C3: whenever create_member, delete_member or log_attendance has returned
   and its save did not fail, the document in the file is the serialization
   of the whole roster in memory: same ids, same fields, same logs. *)
C3_FileMatchesMemoryAfterSave ==
    (phase = "running" /\ call.op \in Mutating /\ ret.kind = "return"
     /\ ~SaveFailed)
        => Document(file) = dump(members)

\* a check-in saved while the roster holds two members
C3_Witness ==
    /\ call.op = "log_attendance"
    /\ ret.kind = "return"
    /\ ~SaveFailed
    /\ Len(members) = 2
    /\ LogOf(members, call.id) # <<>>

(* C4 as stated: save then load is a round trip.  A restart on a file whose
   document is the serialization of the roster yields the same roster (same
   ids, same fields, same bmi, same logs), and saving that roster again
   writes the same document. *)
C4_SaveLoadRoundTrip ==
    [][ /\ (call'.op = "__init__" /\ phase = "running"
            /\ Document(file) = dump(members))
           => (phase' = "running" /\ members' = members
               /\ dump(members') = Document(file'))
        /\ (call'.op = "save_data" /\ Document(file) = dump(members)
              /\ ~SaveFailed')
           => (file' = file /\ members' = members) ]_vars

(* C4 amended: save then load is a round trip on a file the process can
   read.  A restart on a readable file whose document is the serialization
   of the roster yields the same roster (same ids, same fields, same bmi,
   same logs); a restart on a file that cannot be opened for reading yields
   the empty roster and a warning, whatever was saved; and saving a roster
   whose serialization the file holds writes the same document again. *)
C4_RoundTripOfReadableFile ==
    [][ /\ (call'.op = "__init__" /\ phase = "running"
            /\ Document(file) = dump(members))
           => /\ phase' = "running"
              /\ file' = file
              /\ IF Readable(file)
                 THEN members' = members /\ dump(members') = Document(file')
                 ELSE members' = <<>> /\ out' = <<MsgWarning>>
        /\ (call'.op = "save_data" /\ Document(file) = dump(members)
              /\ ~SaveFailed')
           => (file' = file /\ members' = members) ]_vars

\* a restart, on a later day than the member joined, that found on disk the
\* serialization of a roster with a member that has checked in
C4_Witness ==
    /\ call.op = "__init__"
    /\ phase = "running"
    /\ Readable(file)
    /\ Document(file) = dump(members)
    /\ \E i \in Keys(members) :
          /\ LogOf(members, i) # <<>>
          /\ Lookup(members, i).join_date # strftime_date(now)

(* C5: when the save of create_member, delete_member or log_attendance
   fails, the process keeps running and the mutation stays in memory (the
   member is in the roster with the data given, the member is gone, the
   log has the new timestamp last), while the save attempt has written
   nothing of it: the file holds what it held before, or a truncated text. *)
C5_FailedSaveKeepsMemory ==
    [][ (call'.op \in Mutating /\ ret'.kind = "return" /\ SaveFailed')
          => /\ phase' = "running"
             /\ file' \in {file, Written(file, TruncatedFile)}
             /\ call'.op = "create_member" =>
                   /\ Keys(members') = Keys(members) \cup {call'.id}
                   /\ Lookup(members', call'.id).id = call'.id
                   /\ Lookup(members', call'.id).name = call'.args.name
                   /\ Lookup(members', call'.id).weight = call'.args.weight
                   /\ Lookup(members', call'.id).height = call'.args.height
                   /\ Lookup(members', call'.id).tier = call'.args.tier
                   /\ LogOf(members', call'.id) = <<>>
             /\ call'.op = "delete_member" =>
                   Keys(members') = Keys(members) \ {call'.id}
             /\ call'.op = "log_attendance" =>
                   /\ Keys(members') = Keys(members)
                   /\ LogOf(members', call'.id) =
                         Append(LogOf(members, call'.id),
                                strftime_datetime(now')) ]_vars

\* a create whose save failed: the member is in memory and not in the file
C5_Witness ==
    /\ call.op = "create_member"
    /\ ret.kind = "return"
    /\ SaveFailed
    /\ phase = "running"
    /\ Has(members, call.id)
    /\ EntriesFor(file, call.id) = <<>>

(* C6: when the save of create_member, delete_member or log_attendance
   fails, the operation gives its caller an outcome other than the one it
   gives after a successful save. *)
C6_SaveFailureReachesCaller ==
    (call.op \in Mutating /\ SaveFailed)
        => ret \notin {Returned("None"), Returned("name")}

(* C7: a save attempt never leaves a partial write: after it the file holds
   a complete document, the serialization of the roster when the save
   succeeded, and never a truncated text. *)
C7_NoPartialWrite ==
    (phase = "running" /\ call.op \in Mutating \cup {"save_data"}
     /\ ret.kind = "return")
        => /\ file.kind # "truncated"
           /\ ~SaveFailed => Document(file) = dump(members)

(* C8: constructing the store never crashes on a corrupt file: when the
   file exists and is not a valid roster document that can be read,
   construction completes with an empty roster and a warning. *)
C8_LoadNeverCrashes ==
    (call.op = "__init__" /\ file.kind # "absent" /\ ~ValidRoster(file))
        => /\ phase = "running"
           /\ members = <<>>
           /\ out = <<MsgWarning>>

(* C9 as stated: for a member that stays in the roster, every earlier value
   of its attendance log is a prefix of every later value, a restart
   included, and the timestamps of a log are in non-decreasing
   chronological order. *)
C9_LogPrefixAcrossRestart ==
    [][ \A i \in Ids :
          /\ Has(members', i) => Sorted(LogOf(members', i))
          /\ (Has(members, i) /\ Has(members', i))
                => IsPrefix(LogOf(members, i), LogOf(members', i)) ]_vars

(* C9 amended: within one run attendance is append-only and in call order:
   a log_attendance that returns appends exactly one timestamp, the clock
   reading of that call, to the log of its member, and no other operation
   changes a log.  The timestamps are in call order, which is chronological
   order only as long as the clock is not set back between two check-ins:
   a log stays ordered exactly when the new reading is not earlier than its
   last entry.  A restart gives each member the log the file holds for it,
   which is the log as of the last successful save. *)
C9_AppendOnlyWithinRun ==
    [][ \A i \in Ids :
          (Has(members, i) /\ Has(members', i)) =>
             LET log == LogOf(members, i)
                 stamp == strftime_datetime(now')
             IN  IF call'.op = "__init__"
                 THEN LogOf(members', i) = StoredLog(file, i)
                 ELSE IF call'.op = "log_attendance" /\ call'.id = i
                 THEN /\ LogOf(members', i) = Append(log, stamp)
                      /\ Sorted(log) =>
                            (Sorted(LogOf(members', i))
                               <=> (log = <<>> \/ TsLeq(log[Len(log)], stamp)))
                 ELSE LogOf(members', i) = log ]_vars

\* a second check-in whose clock reading is earlier than that of the first
C9_Witness ==
    /\ call.op = "log_attendance"
    /\ ret.kind = "return"
    /\ Len(LogOf(members, call.id)) = 2
    /\ ~TsLeq(LogOf(members, call.id)[1], LogOf(members, call.id)[2])

(* C10: every member of the roster has bmi = weight / height^2 rounded to
   two decimals when height is not 0 and bmi = 0.0 when height is 0,
   whether Create or Load made it; the bmi stored in the file is not
   used. *)
C10_BmiDerived ==
    \A n \in 1..Len(members) :
        LET m == members[n][2]
            tenths == Units(m.weight, 1)
            cm     == Units(m.height, 2)
            cents  == Units(m.bmi, 2)
        IN  IF m.height = Zero THEN m.bmi = Zero
            ELSE 2 * Abs(cents * cm * cm - tenths * 100000) <= cm * cm

\* a member loaded from an entry with a stale bmi next to one of height 0
C10_Witness ==
    /\ phase = "running"
    /\ \E i \in Keys(members) :
          /\ Lookup(members, i).bmi = Dec(2344, -2)
          /\ EntriesFor(file, i) # <<>>
          /\ EntriesFor(file, i)[1][2].f.bmi = Dec(999, -1)
    /\ \E i \in Keys(members) :
          /\ Lookup(members, i).height = Zero
          /\ Lookup(members, i).bmi = Zero

----------------------------------------------------------------------------
(* C11: the dict get_analytics returns has total equal to the number of
   members; on an empty roster it is exactly {total: 0, avg_bmi: 0}, with
   no tiers key; on a non-empty roster its tiers are Basic, Premium and VIP,
   each counting the members whose tier string is exactly that value, so
   the three counts add up to at most total, and to total exactly when
   every member's tier is one of the three. *)
KnownTiers == {"Basic", "Premium", "VIP"}

WithTier(ms, tier) == { i \in Keys(ms) : Lookup(ms, i).tier = tier }

C11_AnalyticsCounts ==
    call.op = "get_analytics" =>
        LET st == ret.stats
        IN  /\ st.total = Cardinality(Keys(members))
            /\ members = <<>> => st = [total |-> 0, avg_bmi |-> 0]
            /\ members # <<>> =>
                 /\ DOMAIN st = {"total", "avg_bmi", "tiers"}
                 /\ DOMAIN st.tiers = KnownTiers
                 /\ \A tier \in KnownTiers :
                       st.tiers[tier] = Cardinality(WithTier(members, tier))
                 /\ LET sum == st.tiers.Basic + st.tiers.Premium + st.tiers.VIP
                    IN  /\ sum <= st.total
                        /\ sum = st.total <=>
                             \A i \in Keys(members) :
                                 Lookup(members, i).tier \in KnownTiers

\* analytics of a roster of two, one Premium member of bmi -20.0 and one
\* of an unknown tier and bmi 0.0
C11_Witness ==
    /\ call.op = "get_analytics"
    /\ Cardinality(Keys(members)) = 2
    /\ \E i \in Keys(members) : Lookup(members, i).tier \notin KnownTiers
    /\ \E i \in Keys(members) : Lookup(members, i).bmi = Dec(-2, 1)
    /\ ret.stats.tiers = [Basic |-> 0, Premium |-> 1, VIP |-> 0]
    /\ ret.stats.avg_bmi = Dec(-1, 1)

----------------------------------------------------------------------------
(* C12: get_member hands out the very Member the mapping holds: the caller
   that keeps it holds the instance of the dict; it goes on holding that
   instance until the member is deleted or the process ends; as long as it
   does, its Member is identical to what a fresh get_member returns, and
   after a later successful log_attendance of that id it shows the new
   attendance entry. *)
C12_HandleIsTheStoredMember ==
    [][ /\ (call'.op = "get_member" /\ ret'.kind = "return")
            => held' = [id |-> call'.id, alias |-> TRUE,
                        obj |-> Lookup(members', call'.id)]
        /\ (held.alias /\ call'.op \notin {"__init__", "get_member"}
              /\ ~(call'.op = "delete_member" /\ call'.id = held.id
                     /\ ret'.kind = "return"))
            => (held'.alias /\ held'.id = held.id)
        /\ held'.alias
            => /\ Has(members', held'.id)
               /\ held' = get_member(members', held'.id).member
        /\ (held.alias /\ call'.op = "log_attendance" /\ call'.id = held.id
              /\ ret'.kind = "return")
            => held'.obj.attendance_log
                  = Append(held.obj.attendance_log, strftime_datetime(now'))
      ]_vars

\* a Member obtained earlier, after two check-ins of its id
C12_Witness ==
    /\ held.alias
    /\ call.op = "log_attendance"
    /\ call.id = held.id
    /\ ret.kind = "return"
    /\ Len(held.obj.attendance_log) = 2
    /\ held.obj = Lookup(members, held.id)

----------------------------------------------------------------------------
(* C13: once a save has failed and the file differs from the roster, the
   next save that succeeds (in create_member, delete_member, log_attendance
   or save_data itself) writes the whole roster: the file then equals the
   dump of the roster, which still holds every member the failed save was
   about, so no failed save leaves a lasting difference. *)
C13_NextSaveCatchesUp ==
    [][ ( /\ phase = "running"
          /\ fails >= 1
          /\ Document(file) # dump(members)
          /\ call'.op \in Mutating \cup {"save_data"}
          /\ ret'.kind = "return"
          /\ ~SaveFailed' )
        => /\ Document(file') = dump(members')
           /\ \A i \in Keys(members) \ {call'.id} :
                 /\ Has(members', i)
                 /\ Lookup(members', i).name = Lookup(members, i).name
                 /\ IsPrefix(LogOf(members, i), LogOf(members', i)) ]_vars

\* a successful save of two members after an earlier save had failed
C13_Witness ==
    /\ fails >= 1
    /\ call.op \in Mutating
    /\ ret.kind = "return"
    /\ ~SaveFailed
    /\ Cardinality(Keys(members)) = 2
    /\ Document(file) = dump(members)

----------------------------------------------------------------------------
(* C14: join_date is written once. create_member sets it to the date of the
   call; no later call of the same run changes it for a member that stays
   in the roster; every successful save writes it to the file unchanged;
   and a start of the program gives each loaded member the join_date its
   file entry holds, so the members of a roster that was saved come back
   with the same join dates even when they are loaded on a later calendar
   date. *)
StoredEntry(f, i) == EntriesFor(f, i)[Len(EntriesFor(f, i))][2].f

C14_JoinDateWriteOnce ==
    [][ \A i \in Keys(members) \cup Keys(members') :
          IF call'.op = "__init__"
          THEN /\ Has(members', i) =>
                    LET stored == StoredEntry(file, i)
                    IN  "join_date" \in DOMAIN stored
                          => Lookup(members', i).join_date = stored.join_date
               /\ (Has(members, i) /\ Document(file) = dump(members)
                     /\ Has(members', i))
                    => Lookup(members', i).join_date
                         = Lookup(members, i).join_date
               /\ (Has(members, i) /\ Document(file) = dump(members)
                     /\ Readable(file))
                    => Has(members', i)
          ELSE /\ (call'.op = "create_member" /\ call'.id = i
                     /\ ret'.kind = "return")
                    => Lookup(members', i).join_date = strftime_date(now')
               /\ (Has(members, i) /\ Has(members', i))
                    => Lookup(members', i).join_date
                         = Lookup(members, i).join_date
               /\ (call'.op \in Mutating \cup {"save_data"}
                     /\ ret'.kind = "return" /\ ~SaveFailed'
                     /\ Has(members', i))
                    => StoredEntry(file', i).join_date
                         = Lookup(members', i).join_date ]_vars

\* a member created on day 0, loaded again by a start on day 1
C14_Witness ==
    /\ call.op = "__init__"
    /\ phase = "running"
    /\ strftime_date(now) = 1
    /\ \E i \in Keys(members) :
          /\ Lookup(members, i).name = "Cy"
          /\ Lookup(members, i).join_date = 0

----------------------------------------------------------------------------
(* C15: a document entry without a join_date or an attendance_log key is
   loaded like any other: when every entry of the document read is an
   object with the eight constructor keys, the start does not fail, every
   entry's member is in the roster, a missing join_date becomes the date the
   clock shows when the entry is loaded and a missing attendance_log
   becomes the empty log. *)
ConstructorKeys ==
    {"id", "name", "age", "gender", "phone", "weight", "height", "tier"}

Loadable(f) ==
    /\ Readable(f)
    /\ f.kind = "doc"
    /\ \A n \in 1..Len(f.entries) :
          /\ f.entries[n][2].isobj
          /\ ConstructorKeys \subseteq DOMAIN f.entries[n][2].f

C15_LoadToleratesMissingKeys ==
    (call.op = "__init__" /\ Loadable(file)) =>
        /\ phase = "running"
        /\ ret.kind = "return"
        /\ \A n \in 1..Len(file.entries) :
              Has(members, file.entries[n][2].f.id)
        /\ \A i \in Keys(members) :
              /\ EntriesFor(file, i) # <<>>
              /\ Lookup(members, i).name = StoredEntry(file, i).name
              /\ "join_date" \notin DOMAIN StoredEntry(file, i)
                   => Lookup(members, i).join_date
                        = strftime_date(call.read[LastEntry(file, i)])
              /\ "attendance_log" \notin DOMAIN StoredEntry(file, i)
                   => Lookup(members, i).attendance_log = <<>>

\* a start that loaded two members from entries without a join_date, the
\* first in the last second of day 0 and the second on day 1
C15_Witness ==
    /\ call.op = "__init__"
    /\ phase = "running"
    /\ Cardinality(Keys(members)) = 2
    /\ \A i \in Keys(members) : "join_date" \notin DOMAIN StoredEntry(file, i)
    /\ members[1][2].join_date = 0
    /\ members[2][2].join_date = 1

----------------------------------------------------------------------------
(* C16: a mutating call that returns normally changes only its target.
   create_member adds exactly one entry, for the new id and with an empty
   attendance_log, and changes no member already there; delete_member
   removes exactly the entry of its id; log_attendance appends exactly one
   timestamp, that of the call, to the log of its member and changes no
   other field of that member and nothing of any other member. *)
C16_OnlyTargetChanges ==
    [][ ret'.kind = "return" =>
          LET m_id == call'.id
          IN
          /\ call'.op = "create_member" =>
               /\ ~Has(members, m_id)
               /\ Len(members') = Len(members) + 1
               /\ Keys(members') = Keys(members) \cup {m_id}
               /\ Lookup(members', m_id).id = m_id
               /\ Lookup(members', m_id).attendance_log = <<>>
               /\ \A j \in Keys(members) :
                     Lookup(members', j) = Lookup(members, j)
          /\ call'.op = "delete_member" =>
               /\ Has(members, m_id)
               /\ Len(members') = Len(members) - 1
               /\ Keys(members') = Keys(members) \ {m_id}
               /\ \A j \in Keys(members') :
                     Lookup(members', j) = Lookup(members, j)
          /\ call'.op = "log_attendance" =>
               /\ Has(members, m_id)
               /\ Len(members') = Len(members)
               /\ Keys(members') = Keys(members)
               /\ \A j \in Keys(members) \ {m_id} :
                     Lookup(members', j) = Lookup(members, j)
               /\ Lookup(members', m_id)
                    = [Lookup(members, m_id) EXCEPT
                         !.attendance_log = Append(@, strftime_datetime(now'))]
      ]_vars

\* a check-in of one of two members, the other one having a log of its own
C16_Witness ==
    /\ call.op = "log_attendance"
    /\ ret.kind = "return"
    /\ Cardinality(Keys(members)) = 2
    /\ \A i \in Keys(members) : Len(LogOf(members, i)) = 1
    /\ \E i \in Keys(members) : LogOf(members, i) # LogOf(members, call.id)

----------------------------------------------------------------------------
(* C17: calls that do not change the roster never write the backing file.
   A start of the program, get_member, get_analytics, the enumeration of
   the members and every call that raises DuplicateIdError or
   MemberNotFoundError leave the file exactly as it was, existence
   included; a start that finds no file gives an empty roster, no error and
   no message, and creates no file. *)
ReadOnlyOps == {"__init__", "get_member", "get_analytics", "members.values"}

C17_ReadOnlyNeverWrites ==
    /\ [] ( (call.op = "__init__" /\ file = AbsentFile)
              => /\ members = <<>>
                 /\ phase = "running"
                 /\ ret = Returned("None")
                 /\ out = <<>> )
    /\ [][ ( \/ call'.op \in ReadOnlyOps
             \/ ret' \in {Raised("DuplicateIdError"),
                          Raised("MemberNotFoundError")} )
           => /\ file' = file
              /\ fails' = fails ]_vars

\* a start on day 1 that again finds no file: the earlier run did not
\* create one
C17_Witness ==
    /\ call.op = "__init__"
    /\ file = AbsentFile
    /\ members = <<>>
    /\ strftime_date(now) = 1

----------------------------------------------------------------------------
(* C18: every key of the roster is the id of the member stored under it,
   and no key occurs twice. A start on a document whose top-level keys
   differ from the inner ids keys the members by their inner id, entries
   with the same inner id giving one member, that of the later entry; and
   a document written by a successful save has every key equal to the id
   inside its entry. *)
InnerIds(f) == { f.entries[n][2].f.id : n \in 1..Len(f.entries) }

C18_KeysAreMemberIds ==
    /\ \A n \in 1..Len(members) : members[n][1] = members[n][2].id
    /\ Cardinality(Keys(members)) = Len(members)
    /\ (call.op = "__init__" /\ Loadable(file)) =>
          /\ Keys(members) = InnerIds(file)
          /\ \A i \in Keys(members) :
                Lookup(members, i).name
                  = file.entries[LastEntry(file, i)][2].f.name
    /\ (call.op \in Mutating \cup {"save_data"} /\ ret.kind = "return"
          /\ ~SaveFailed) =>
          /\ file.kind = "doc"
          /\ \A n \in 1..Len(file.entries) :
                file.entries[n][1] = file.entries[n][2].f.id

\* a start on a document of two entries with the inner id M1, the first
\* under the key M2: one member, Bob of the second entry, under M1
C18_Witness ==
    /\ call.op = "__init__"
    /\ strftime_date(now) = 1
    /\ Len(file.entries) = 2
    /\ file.entries[1][1] # file.entries[1][2].f.id
    /\ Keys(members) = {"M1"}
    /\ Lookup(members, "M1").name = "Bob"

----------------------------------------------------------------------------
(* C19 as stated: a start on an unreadable or corrupt file gives an empty
   roster and a warning; from then on, the first create_member whose save
   goes through replaces the file by the dump of the roster in memory, a
   document in which nothing of the old content is left, and a start on that
   file loads exactly that roster. *)
Corrupt(f) == ~Readable(f) \/ f.kind \in {"malformed", "truncated"}

C19_CreateReplacesCorruptFile ==
    [][ /\ (call'.op = "__init__" /\ Corrupt(file))
            => /\ members' = <<>>
               /\ phase' = "running"
               /\ out' = <<MsgWarning>>
        /\ (phase = "running" /\ Corrupt(file)
              /\ call'.op = "create_member" /\ ret'.kind = "return"
              /\ ~SaveFailed')
            => /\ file'.kind = "doc"
               /\ Document(file') = dump(members')
               /\ Has(members', call'.id)
               /\ LET again == _load_data(file', Steady(file', now'))
                  IN  /\ again.exc = ""
                      /\ again.members = members' ]_vars

(* C19 amended: a start on an unreadable or corrupt file gives an empty
   roster and a warning; from then on, the first create_member whose save
   goes through replaces the text of the file by the dump of the roster in
   memory, a document in which nothing of the old content is left.  The
   write does not change who may read the file: a start on a file that was
   corrupt loads exactly that roster, a start on a file that could not be
   opened for reading still cannot open it and gives the empty roster and
   the warning again. *)
C19_CreateReplacesContent ==
    [][ /\ (call'.op = "__init__" /\ Corrupt(file))
            => /\ members' = <<>>
               /\ phase' = "running"
               /\ out' = <<MsgWarning>>
        /\ (phase = "running" /\ Corrupt(file)
              /\ call'.op = "create_member" /\ ret'.kind = "return"
              /\ ~SaveFailed')
            => /\ file'.kind = "doc"
               /\ Document(file') = dump(members')
               /\ Readable(file') = Readable(file)
               /\ Has(members', call'.id)
               /\ LET again == _load_data(file', Steady(file', now'))
                  IN  /\ again.exc = ""
                      /\ IF Readable(file)
                         THEN again.members = members'
                         ELSE /\ again.members = <<>>
                              /\ again.out = <<MsgWarning>> ]_vars

\* one member, created and saved over a file that cannot be read, and the
\* start after it
C19_Witness ==
    /\ call.op = "__init__"
    /\ ~Readable(file)
    /\ Len(file.entries) = 1
    /\ file.entries[1][2].f.name = "Cy"
    /\ members = <<>>
    /\ out = <<MsgWarning>>

----------------------------------------------------------------------------
(* C20: every menu choice 1 to 6, in every roster state the program can
   reach, the empty roster included, completes and returns to the menu
   loop: after the controller call of any view the process is still
   running, and it ends only through choice 7. *)
C20_MenuActionsReturn ==
    call.op \notin {"__init__", "sys.exit"} => phase = "running"

====
